---- MODULE Spec2Model ----
(***************************************************************************)
(* Model of the comparable-sales pipeline of the appraisal scripts:        *)
(*   Run_Integrated_Analysis.py  run_analysis_pipeline (orchestrator)      *)
(*   Market_Analysis.py          load, filter, period validation, trend    *)
(*   Adjustment_Analysis_.py     time / living-area adjustments            *)
(* Each script is straight-line code; an action is one labelled section of *)
(* a script, and pc is the position of the run.  Floating-point values are *)
(* modelled as exact rationals <<n, d>> (d > 0), with <<0, 0>> for NaN and *)
(* <<1, 0>>, <<-1, 0>> for +inf, -inf.  Dates are day numbers.             *)
(***************************************************************************)
EXTENDS Integers, Sequences, FiniteSets, TLC

VARIABLES
    form,                 \* market_analysis_inputs.json
    csv,                  \* rows of the input sales CSV
    header,               \* column names of the input CSV, stripped
    csvColumns,           \* column names of the CSV after the heuristic rename
    now,                  \* day of the wall clock when the market analysis runs
    pc,                   \* position of the orchestrated run
    DATE_OF_VALUE,        \* Market_Analysis.py DATE_OF_VALUE
    df,                   \* Market_Analysis.py df
    actual_coverage_days, \* Market_Analysis.py actual_coverage_days
    idx,                  \* position of the period loop in time_periods
    valid_periods,        \* Market_Analysis.py valid_periods
    omitted_periods,      \* Market_Analysis.py omitted_periods
    statistics,           \* Market_Analysis.py statistics
    trend_results,        \* Market_Analysis.py trend_results
    stdout,               \* lines printed by the load and filter sections
    files,                \* names of the files written so far
    sales_data_processed, \* content of sales_data_processed.csv
    statistics_summary,   \* content of statistics_summary.csv
    validation_info,      \* content of validation_info.json
    adjusted_sales,       \* content of adjusted_sales.csv
    adjustment_summary,   \* content of adjustment_summary.json
    comp_sales,           \* Adjustment_Analysis_.py comp_sales
    marginal_value_per_sf,\* Adjustment_Analysis_.py marginal_value_per_sf
    regressions,          \* number of linregress calls made so far
    market_rc,            \* exit code of the market analysis subprocess
    adjustment_rc,        \* exit code of the adjustment analysis subprocess
    result                \* return value of run_analysis_pipeline

vars == <<form, csv, header, csvColumns, now, pc, DATE_OF_VALUE, df,
          actual_coverage_days, idx, valid_periods, omitted_periods,
          statistics, trend_results, stdout, files, sales_data_processed, statistics_summary, validation_info,
          adjusted_sales, adjustment_summary, comp_sales,
          marginal_value_per_sf, regressions, market_rc, adjustment_rc, result>>

inputVars == <<form, csv, header, csvColumns, now>>
maVars == <<DATE_OF_VALUE, df, actual_coverage_days, idx, valid_periods,
            omitted_periods, statistics, trend_results, stdout>>
maFiles == <<sales_data_processed, statistics_summary, validation_info>>
aaVars == <<comp_sales, marginal_value_per_sf, regressions>>
aaFiles == <<adjusted_sales, adjustment_summary>>

-----------------------------------------------------------------------------
(* Bounds of the model *)

MaxSales == 3      \* longest input table of the period-validation runs
MaxComps == 2      \* longest input table of the adjustment runs
DateStep == 61     \* spacing in days of the sale dates that are tried
MaxDateIdx == 7    \* sale dates are DateStep * (0 .. MaxDateIdx)

(* Program constants *)

AvgMonthDays100 == 3044          \* 30.44 days per month, in hundredths
buffer_months == 1
DefaultTimeThresholdDays == 30
DefaultSfThresholdPct == 5
TrendWindowMonths == 12

\* the ladder with its last two windows exchanged
\* a ladder that lists "0-24 months" twice and "0-36 months" never
time_periods_repeated ==
    << [name |-> "0-3 months",  months |-> 3],
       [name |-> "4-6 months",  months |-> 6],
       [name |-> "7-9 months",  months |-> 9],
       [name |-> "9-12 months", months |-> 12],
       [name |-> "0-6 months",  months |-> 6],
       [name |-> "0-12 months", months |-> 12],
       [name |-> "0-18 months", months |-> 18],
       [name |-> "0-24 months", months |-> 24],
       [name |-> "0-24 months", months |-> 24] >>

time_periods_swapped ==
    << [name |-> "0-3 months",  months |-> 3],
       [name |-> "4-6 months",  months |-> 6],
       [name |-> "7-9 months",  months |-> 9],
       [name |-> "9-12 months", months |-> 12],
       [name |-> "0-6 months",  months |-> 6],
       [name |-> "0-12 months", months |-> 12],
       [name |-> "0-18 months", months |-> 18],
       [name |-> "0-36 months", months |-> 36],
       [name |-> "0-24 months", months |-> 24] >>

time_periods ==
    << [name |-> "0-3 months",  months |-> 3],
       [name |-> "4-6 months",  months |-> 6],
       [name |-> "7-9 months",  months |-> 9],
       [name |-> "9-12 months", months |-> 12],
       [name |-> "0-6 months",  months |-> 6],
       [name |-> "0-12 months", months |-> 12],
       [name |-> "0-18 months", months |-> 18],
       [name |-> "0-24 months", months |-> 24],
       [name |-> "0-36 months", months |-> 36] >>

\* a required list that holds only the columns no later step reads
required_descriptive == {"Bedrooms", "Bathrooms", "Street_Number",
                         "Street_Name", "DOM", "CDOM", "Garage"}

required_final == {"Sale_Price", "Sale_Date", "Living_Area", "Bedrooms",
                   "Bathrooms", "Street_Number", "Street_Name", "DOM", "CDOM",
                   "Garage"}

NoSalesMessage == "No sales on or before date of value"

NaT == -1          \* pandas NaT: a sale date that could not be parsed

Unparseable == -2  \* an effective_date that strptime('%Y-%m-%d') rejects

MissingArea == -3  \* a blank Living_Area cell, read by pandas as NaN

-----------------------------------------------------------------------------
(* Floating-point values as rationals *)

Abs(x) == IF x < 0 THEN -x ELSE x

Sgn(x) == IF x < 0 THEN -1 ELSE IF x > 0 THEN 1 ELSE 0

RECURSIVE GCD(_, _)
GCD(a, b) == IF b = 0 THEN a ELSE GCD(b, a % b)

NaN == <<0, 0>>

Rat(n, d) ==
    IF d = 0 THEN <<Sgn(n), 0>>
    ELSE LET g == GCD(Abs(n), Abs(d))
         IN  <<(Sgn(d) * n) \div g, Abs(d) \div g>>

RInt(i) == <<i, 1>>

RZero == <<0, 1>>

IsNaN(a) == a = NaN

IsFinite(a) == a[2] # 0

RNeg(a) == <<-a[1], a[2]>>

RAbs(a) == <<Abs(a[1]), a[2]>>

RAdd(a, b) ==
    IF a[2] = 0 /\ b[2] = 0
    THEN (IF a = b THEN a ELSE NaN)
    ELSE Rat(a[1] * b[2] + b[1] * a[2], a[2] * b[2])

RMul(a, b) == Rat(a[1] * b[1], a[2] * b[2])

RInv(a) == IF a[1] < 0 THEN <<-a[2], -a[1]>> ELSE <<a[2], a[1]>>

RDiv(a, b) == RMul(a, RInv(b))

\* a < b; every comparison with NaN is False
RLt(a, b) ==
    /\ ~IsNaN(a)
    /\ ~IsNaN(b)
    /\ IF a[2] = 0 /\ b[2] = 0 THEN a[1] < b[1]
       ELSE a[1] * b[2] < b[1] * a[2]

RGt(a, b) == RLt(b, a)

\* a <= b
RLe(a, b) ==
    /\ ~IsNaN(a)
    /\ ~IsNaN(b)
    /\ IF a[2] = 0 /\ b[2] = 0 THEN a[1] <= b[1]
       ELSE a[1] * b[2] <= b[1] * a[2]

\* a != 0, which is True of NaN
RNonZero(a) == a # RZero

-----------------------------------------------------------------------------
(* Sequences *)

RECURSIVE SeqSum(_)
SeqSum(s) == IF s = <<>> THEN 0 ELSE s[1] + SeqSum(Tail(s))

SeqMin(s) == CHOOSE m \in {s[i] : i \in 1..Len(s)} :
                 \A i \in 1..Len(s) : m <= s[i]

SeqMax(s) == CHOOSE m \in {s[i] : i \in 1..Len(s)} :
                 \A i \in 1..Len(s) : m >= s[i]

SeqsUpTo(S, n) == UNION {[1..k -> S] : k \in 0..n}

-----------------------------------------------------------------------------
(* Inputs of a run *)

SaleDates == {DateStep * k : k \in 0..MaxDateIdx}

\* the date of value of the runs: one sale date of the grid lies after it
EffectiveDate == DateStep * (MaxDateIdx - 1)

\* rows of the period-validation runs: every date of the grid and an
\* unparseable date; price and living area follow the sale date
PeriodRows ==
    {[Sale_Date |-> d,
      Sale_Price |-> 200 + 10 * (d \div DateStep),
      Living_Area |-> 100 + 5 * ((d \div DateStep) % 3)] : d \in SaleDates}
    \cup {[Sale_Date |-> NaT, Sale_Price |-> 200, Living_Area |-> 100]}

\* rows of the adjustment runs: sold on the date of value or DateStep days
\* before it, two prices, three living areas
AdjustmentRows ==
    [Sale_Date : {EffectiveDate, EffectiveDate - DateStep},
     Sale_Price : {200, 260},
     Living_Area : {100, 105, 130}]

\* rows of the twelve-month runs: sold two, six, eleven and twelve months
\* before the date of value, at one price
YearRows ==
    {[Sale_Date |-> EffectiveDate - k,
      Sale_Price |-> 200,
      Living_Area |-> 100 + 5 * (k % 3)] : k \in {61, 183, 340, 366}}

PeriodForms ==
    [effective_date : {EffectiveDate},
     living_area : {0, 100},
     time_threshold_days : {DefaultTimeThresholdDays},
     sf_threshold_pct : {DefaultSfThresholdPct}]

AdjustmentForms ==
    [effective_date : {EffectiveDate},
     living_area : {0, 100, 130},
     time_threshold_days : {DefaultTimeThresholdDays, DateStep},
     sf_threshold_pct : {DefaultSfThresholdPct}]

\* rows of the trend runs: two sale dates, three prices, the living area
\* following the price
TrendRows ==
    {[Sale_Date |-> d, Sale_Price |-> p, Living_Area |-> p \div 2]
        : d \in {EffectiveDate, EffectiveDate - DateStep},
          p \in {200, 230, 300}}

\* rows of the living-area runs: a living area may be zero or blank
AreaRows ==
    [Sale_Date : {EffectiveDate, EffectiveDate - DateStep},
     Sale_Price : {200, 260},
     Living_Area : {0, MissingArea, 100, 130}]

AreaForms ==
    [effective_date : {EffectiveDate},
     living_area : {100},
     time_threshold_days : {DefaultTimeThresholdDays},
     sf_threshold_pct : {DefaultSfThresholdPct}]

\* forms of the configuration runs: the effective date may be unparseable
InputForms ==
    [effective_date : {EffectiveDate, Unparseable},
     living_area : {0, 100},
     time_threshold_days : {DefaultTimeThresholdDays},
     sf_threshold_pct : {DefaultSfThresholdPct}]

(* The heuristic column mapping.  The tests 'word in low' are read from a
   table of the words of the heuristic that each header name contains. *)

HeaderNames == {"Close Price", "Sale Price", "List Price", "Close Date",
                "Sale Date", "Living Area", "GLA", "Beds", "Bedrooms",
                "Baths", "Street Number", "Street Name", "DOM", "CDOM",
                "Garage"}

\* col.lower()
Lower ==
    [col \in HeaderNames |->
        CASE col = "Close Price" -> "close price"
          [] col = "Sale Price" -> "sale price"
          [] col = "List Price" -> "list price"
          [] col = "Close Date" -> "close date"
          [] col = "Sale Date" -> "sale date"
          [] col = "Living Area" -> "living area"
          [] col = "GLA" -> "gla"
          [] col = "Beds" -> "beds"
          [] col = "Bedrooms" -> "bedrooms"
          [] col = "Baths" -> "baths"
          [] col = "Street Number" -> "street number"
          [] col = "Street Name" -> "street name"
          [] col = "DOM" -> "dom"
          [] col = "CDOM" -> "cdom"
          [] col = "Garage" -> "garage"]

\* the words tested by the heuristic that occur in col.lower()
Words ==
    [col \in HeaderNames |->
        CASE col = "Close Price" -> {"price", "close"}
          [] col = "Sale Price" -> {"price", "sale"}
          [] col = "List Price" -> {"price", "st"}
          [] col = "Close Date" -> {"close", "date"}
          [] col = "Sale Date" -> {"sale", "date"}
          [] col = "Living Area" -> {"living"}
          [] col = "GLA" -> {"gla"}
          [] col = "Beds" -> {"bed"}
          [] col = "Bedrooms" -> {"bed", "room"}
          [] col = "Baths" -> {"bath"}
          [] col = "Street Number" -> {"street number", "street no",
                                       "street", "st"}
          [] col = "Street Name" -> {"street", "name", "st"}
          [] col = "DOM" -> {"dom"}
          [] col = "CDOM" -> {"cdom", "dom"}
          [] col = "Garage" -> {"garage"}]

\* low.startswith('street')
StartsWithStreet(col) == col \in {"Street Number", "Street Name"}

NotMapped == "none"

\* the if/elif chain of the heuristic for one column
Canonical(col) ==
    LET low == Lower[col]
        w == Words[col]
    IN  IF ("price" \in w /\ ("close" \in w \/ "sale" \in w)) \/ low = "price"
        THEN "Sale_Price"
        ELSE IF (("close" \in w \/ "sale" \in w) /\ "date" \in w)
                \/ low \in {"closedate", "saledate"}
        THEN "Sale_Date"
        ELSE IF w \cap {"living", "gla", "sqft", "square"} # {}
        THEN "Living_Area"
        ELSE IF "bed" \in w /\ "room" \notin w
        THEN "Bedrooms"
        ELSE IF "bath" \in w
        THEN "Bathrooms"
        ELSE IF w \cap {"street number", "street_number", "street no"} # {}
        THEN "Street_Number"
        ELSE IF ("street" \in w /\ "name" \in w)
                \/ (StartsWithStreet(col) /\ "name" \notin w /\ "st" \in w)
        THEN "Street_Name"
        ELSE IF low = "dom"
                \/ w \cap {"days on market", "days active", "days_active"} # {}
        THEN "DOM"
        ELSE IF w \cap {"cdom", "cumulative"} # {}
        THEN "CDOM"
        ELSE IF "garage" \in w
        THEN "Garage"
        ELSE NotMapped

\* rename_map, by column position
rename_map(columns) == [i \in 1..Len(columns) |-> Canonical(columns[i])]

\* df.columns after df.rename(columns=rename_map)
Renamed(columns) ==
    [i \in 1..Len(columns) |->
        IF Canonical(columns[i]) = NotMapped THEN columns[i]
        ELSE Canonical(columns[i])]

ColumnSet(columns) == {columns[i] : i \in 1..Len(columns)}

\* two columns of df carry the name
Duplicated(columns, name) ==
    Cardinality({i \in 1..Len(columns) : columns[i] = name}) > 1

\* a header with one column for each canonical name
FullHeader ==
    <<"Close Price", "Close Date", "Living Area", "Beds", "Baths",
      "Street Number", "Street Name", "DOM", "CDOM", "Garage">>

\* the columns of FullHeader that resolve to a name of the set
HeaderOf(columnSet) ==
    SelectSeq(FullHeader, LAMBDA col : Canonical(col) \in columnSet)

\* headers of the mapping runs: FullHeader, and FullHeader with one more
\* column
MappingHeaders ==
    {FullHeader}
    \cup {Append(FullHeader, col) :
             col \in {"Sale Price", "Sale Date", "GLA", "Bedrooms",
                      "List Price"}}

ColumnSets == {required_final, required_final \ {"Garage"}}

\* headers of the configuration runs: one column that did not resolve, or
\* only the sale price, sale date and living area
InputColumnSets ==
    {required_final \ {c} : c \in {"Sale_Price", "Sale_Date", "Living_Area",
                                   "Garage"}}
    \cup {required_final, {"Sale_Price", "Sale_Date", "Living_Area"}}

\* days on which the market analysis may be run: the last two of the grid
Clocks == {DateStep * (MaxDateIdx - 1), DateStep * MaxDateIdx}

NoFile == [exists |-> FALSE]

InitFrom(forms, rows, maxLen, headers, clocks) ==
    /\ form \in forms
    /\ csv \in SeqsUpTo(rows, maxLen)
    /\ header \in headers
    /\ csvColumns = ColumnSet(Renamed(header))
    /\ now \in clocks
    /\ stdout = <<>>
    /\ pc = "start"
    /\ DATE_OF_VALUE = 0
    /\ df = <<>>
    /\ actual_coverage_days = 0
    /\ idx = 0
    /\ valid_periods = <<>>
    /\ omitted_periods = <<>>
    /\ statistics = <<>>
    /\ trend_results = NoFile
    /\ files = {}
    /\ sales_data_processed = <<>>
    /\ statistics_summary = <<>>
    /\ validation_info = NoFile
    /\ adjusted_sales = <<>>
    /\ adjustment_summary = NoFile
    /\ comp_sales = <<>>
    /\ marginal_value_per_sf = RZero
    /\ regressions = 0
    /\ market_rc = -1
    /\ adjustment_rc = -1
    /\ result = "none"

InitOf(forms, rows, maxLen, columnSets, clocks) ==
    InitFrom(forms, rows, maxLen, {HeaderOf(c) : c \in columnSets}, clocks)

InitWith(forms, rows, maxLen) ==
    InitOf(forms, rows, maxLen, ColumnSets, {DateStep * MaxDateIdx})

Init == InitWith(AdjustmentForms, AdjustmentRows, MaxComps)

InitPeriods == InitWith(PeriodForms, PeriodRows, MaxSales)

InitTrend == InitWith(PeriodForms, TrendRows, MaxSales)

InitYear == InitWith(PeriodForms, YearRows, MaxSales)

InitAreas == InitWith(AreaForms, AreaRows, MaxComps)

InitInputs == InitOf(InputForms, PeriodRows, MaxComps, InputColumnSets, Clocks)

InitHeaders ==
    InitFrom(AreaForms, AdjustmentRows, MaxComps, MappingHeaders,
             {DateStep * MaxDateIdx})

-----------------------------------------------------------------------------
(* Market_Analysis.py *)

\* df[df['Sale_Date'] <= DATE_OF_VALUE]: a comparison with NaT is False
OnOrBefore(row, dov) == row.Sale_Date # NaT /\ row.Sale_Date <= dov

\* a filter that drops only the unparseable dates
FilterSalesKeepsLater(rows, dov) == SelectSeq(rows, LAMBDA r : r.Sale_Date # NaT)

FilterSales(rows, dov) == SelectSeq(rows, LAMBDA r : OnOrBefore(r, dov))

\* a Living_Area cell as a float
AreaValue(area) == IF area = MissingArea THEN NaN ELSE RInt(area)

\* Price_Per_SF and Days_From_DOV
Derive(row, dov) ==
    [Sale_Date |-> row.Sale_Date,
     Sale_Price |-> row.Sale_Price,
     Living_Area |-> row.Living_Area,
     Price_Per_SF |-> RDiv(RInt(row.Sale_Price), AreaValue(row.Living_Area)),
     Days_From_DOV |-> dov - row.Sale_Date]

InsertByDate(row, s) ==
    LET k == Cardinality({i \in 1..Len(s) : s[i].Sale_Date <= row.Sale_Date})
    IN  SubSeq(s, 1, k) \o <<row>> \o SubSeq(s, k + 1, Len(s))

\* df.sort_values('Sale_Date').reset_index(drop=True)
RECURSIVE SortByDate(_)
SortByDate(s) ==
    IF s = <<>> THEN <<>>
    ELSE InsertByDate(s[Len(s)], SortByDate(SubSeq(s, 1, Len(s) - 1)))

\* the run of the market analysis subprocess begins
RunMarketAnalysis ==
    /\ pc = "start"
    /\ pc' = "ma_load"
    /\ UNCHANGED <<inputVars, maVars, files, maFiles, aaVars, aaFiles,
                   market_rc, adjustment_rc, result>>

\* the derived metrics and the sort by sale date
DerivedAndSorted(kept, dov) ==
    SortByDate([i \in 1..Len(kept) |-> Derive(kept[i], dov)])

\* strptime of the form's effective_date, datetime.now() when it fails
DateOfValue(f, clock) ==
    IF f.effective_date = Unparseable THEN clock ELSE f.effective_date

\* the lines printed while the configuration and the CSV are loaded
LoadMessages(f, columns) ==
    (IF f.effective_date = Unparseable
     THEN <<[line |-> "Warning: Could not parse date, using today", n |-> 0]>>
     ELSE <<>>)
    \o (IF (required_final \ ColumnSet(columns)) # {}
        THEN <<[line |-> "ERROR: Missing required final columns",
                n |-> Cardinality(required_final \ ColumnSet(columns))]>>
        ELSE IF Duplicated(columns, "Sale_Date")
        THEN <<[line |-> "ERROR: Could not parse Sale_Date column", n |-> 0]>>
        ELSE IF f.living_area = 0
        THEN <<[line |-> "ERROR: Missing required form fields", n |-> 1]>>
        ELSE <<>>)

\* form inputs, configuration, CSV load and rename, required columns, date
\* parse (pd.to_datetime raises on two Sale_Date columns) and form fields
MA_Load ==
    /\ pc = "ma_load"
    /\ stdout' = stdout \o LoadMessages(form, Renamed(header))
    /\ IF \/ (required_final \ ColumnSet(Renamed(header))) # {}
          \/ Duplicated(Renamed(header), "Sale_Date")
          \/ form.living_area = 0
       THEN /\ market_rc' = 1
            /\ pc' = "ma_exit"
            /\ UNCHANGED <<DATE_OF_VALUE, df>>
       ELSE /\ DATE_OF_VALUE' = DateOfValue(form, now)
            /\ df' = csv
            /\ pc' = "ma_filter"
            /\ UNCHANGED market_rc
    /\ UNCHANGED <<inputVars, actual_coverage_days, idx, valid_periods,
                   omitted_periods, statistics, trend_results, files, maFiles,
                   aaVars, aaFiles, adjustment_rc, result>>

DegenerateValidationInfo ==
    [date_of_value |-> DATE_OF_VALUE,
     message |-> NoSalesMessage,
     subject_property |-> [living_area |-> form.living_area]]

\* the lines printed after the filter: the number of sales kept, and the
\* warning of the empty-input branch
FilterMessages(kept) ==
    <<[line |-> "Sales on or before", n |-> Len(kept)]>>
    \o (IF kept = <<>>
        THEN <<[line |-> "WARNING: No sales on or before", n |-> 0]>>
        ELSE <<>>)

\* filter on the date of value; the empty-input branch; derived metrics
\* (the division raises when df has two Sale_Price or two Living_Area
\* columns, and the script ends with exit code 1), sort
MA_Filter ==
    /\ pc = "ma_filter"
    /\ stdout' = stdout \o FilterMessages(FilterSales(df, DATE_OF_VALUE))
    /\ LET kept == FilterSales(df, DATE_OF_VALUE)
       IN  IF kept = <<>>
           THEN /\ df' = kept
                /\ validation_info' = DegenerateValidationInfo
                /\ sales_data_processed' = kept
                /\ files' = files \cup {"validation_info.json",
                                        "sales_data_processed.csv"}
                /\ market_rc' = 0
                /\ pc' = "ma_exit"
           ELSE IF \/ Duplicated(Renamed(header), "Sale_Price")
                   \/ Duplicated(Renamed(header), "Living_Area")
           THEN /\ df' = kept
                /\ market_rc' = 1
                /\ pc' = "ma_exit"
                /\ UNCHANGED <<validation_info, sales_data_processed, files>>
           ELSE /\ df' = DerivedAndSorted(kept, DATE_OF_VALUE)
                /\ pc' = "ma_coverage"
                /\ UNCHANGED <<validation_info, sales_data_processed, files,
                               market_rc>>
    /\ UNCHANGED <<inputVars, DATE_OF_VALUE, actual_coverage_days, idx,
                   valid_periods, omitted_periods, statistics, trend_results,
                   statistics_summary, aaVars, aaFiles, adjustment_rc, result>>

SaleDatesOf(rows) == [i \in 1..Len(rows) |-> rows[i].Sale_Date]

\* earliest sale and actual data coverage; the period lists start empty
MA_Coverage ==
    /\ pc = "ma_coverage"
    /\ actual_coverage_days' = DATE_OF_VALUE - SeqMin(SaleDatesOf(df))
    /\ valid_periods' = <<>>
    /\ omitted_periods' = <<>>
    /\ idx' = 1
    /\ pc' = "ma_periods"
    /\ UNCHANGED <<inputVars, DATE_OF_VALUE, df, statistics, trend_results,
                   stdout, files, maFiles, aaVars, aaFiles, market_rc,
                   adjustment_rc, result>>

\* DATE_OF_VALUE - timedelta(days=int(period_months * 30.44))
CutoffDate(dov, months) == dov - ((months * AvgMonthDays100) \div 100)

\* the sales sold on or before the cutoff
SalesCountBefore(rows, cutoff) ==
    Cardinality({i \in 1..Len(rows) : rows[i].Sale_Date <= cutoff})

\* len(df[df['Sale_Date'] >= cutoff_date])
SalesCount(rows, cutoff) ==
    Cardinality({i \in 1..Len(rows) : rows[i].Sale_Date >= cutoff})

\* the coverage taken in days where months are meant
BeyondCoverageInDays(months, coverageDays) ==
    months > coverageDays + buffer_months

\* the coverage check without the one-month buffer
BeyondCoverageNoBuffer(months, coverageDays) ==
    months * AvgMonthDays100 > coverageDays * 100

\* period_months > (actual_coverage_months + buffer_months), with
\* actual_coverage_months = actual_coverage_days / 30.44
BeyondCoverage(months, coverageDays) ==
    months * AvgMonthDays100 >
        coverageDays * 100 + buffer_months * AvgMonthDays100

\* f"{actual_coverage_months:.1f}": the coverage in tenths of a month
CoverageTenths(coverageDays) ==
    (2 * 1000 * coverageDays + AvgMonthDays100) \div (2 * AvgMonthDays100)

\* the duplicate check against the first included period, not the last
DuplicatesFirst(valid, count) ==
    valid # <<>> /\ count = valid[1].sales_count

DuplicatesAnyIncluded(valid, count) ==
    \E i \in 1..Len(valid) : count = valid[i].sales_count

\* check 2: the sale count equals that of the last period included so far
DuplicatesPrevious(valid, count) ==
    valid # <<>> /\ count = valid[Len(valid)].sales_count

\* one iteration of the period validation loop
MA_Period ==
    /\ pc = "ma_periods"
    /\ idx \in 1..Len(time_periods)
    /\ LET period_name == time_periods[idx].name
           period_months == time_periods[idx].months
           cutoff_date == CutoffDate(DATE_OF_VALUE, period_months)
           sales_count == SalesCount(df, cutoff_date)
       IN  IF BeyondCoverage(period_months, actual_coverage_days)
           THEN /\ omitted_periods' = Append(omitted_periods,
                     [name |-> period_name,
                      months |-> period_months,
                      reason |-> [kind |-> "extends beyond data coverage",
                                  tenths |-> CoverageTenths(actual_coverage_days)],
                      sales_count |-> sales_count])
                /\ UNCHANGED valid_periods
           ELSE IF DuplicatesPrevious(valid_periods, sales_count)
           THEN /\ omitted_periods' = Append(omitted_periods,
                     [name |-> period_name,
                      months |-> period_months,
                      reason |-> [kind |-> "identical sales count to",
                                  ref |-> valid_periods[Len(valid_periods)].name,
                                  n |-> sales_count],
                      sales_count |-> sales_count])
                /\ UNCHANGED valid_periods
           ELSE /\ valid_periods' = Append(valid_periods,
                     [name |-> period_name,
                      months |-> period_months,
                      sales_count |-> sales_count,
                      cutoff_date |-> cutoff_date,
                      status |-> "valid"])
                /\ UNCHANGED omitted_periods
    /\ idx' = idx + 1
    /\ pc' = IF idx = Len(time_periods) THEN "ma_stats" ELSE "ma_periods"
    /\ UNCHANGED <<inputVars, DATE_OF_VALUE, df, actual_coverage_days,
                   statistics, trend_results, stdout, files, maFiles, aaVars,
                   aaFiles, market_rc, adjustment_rc, result>>

Column(rows, name) == [i \in 1..Len(rows) |-> rows[i][name]]

\* statistics of one valid period; a period without sales gets no row
PeriodStatistics(rows, period) ==
    LET period_df == SelectSeq(rows, LAMBDA r : r.Sale_Date >= period.cutoff_date)
        n == Len(period_df)
    IN  IF n = 0 THEN <<>>
        ELSE << [Period |-> period.name,
                 Months |-> period.months,
                 N_Sales |-> n,
                 Absorption_Rate |-> Rat(n, period.months),
                 Price_Mean |-> Rat(SeqSum(Column(period_df, "Sale_Price")), n)] >>

RECURSIVE StatisticsOf(_, _)
StatisticsOf(rows, periods) ==
    IF periods = <<>> THEN <<>>
    ELSE PeriodStatistics(rows, Head(periods)) \o StatisticsOf(rows, Tail(periods))

\* STEP 3: statistics for the valid periods
MA_Statistics ==
    /\ pc = "ma_stats"
    /\ statistics' = StatisticsOf(df, valid_periods)
    /\ pc' = "ma_trend"
    /\ UNCHANGED <<inputVars, DATE_OF_VALUE, df, actual_coverage_days, idx,
                   valid_periods, omitted_periods, trend_results, stdout,
                   files, maFiles, aaVars, aaFiles, market_rc, adjustment_rc,
                   result>>

(* scipy.stats.linregress over integer columns xs, ys *)

Products(xs, ys) == [i \in 1..Len(xs) |-> xs[i] * ys[i]]

\* n * sum(x*y) - sum(x) * sum(y)
CrossSum(xs, ys) ==
    Len(xs) * SeqSum(Products(xs, ys)) - SeqSum(xs) * SeqSum(ys)

\* ValueError: all x values are identical
LinregressRaises(xs) == Len(xs) > 1 /\ SeqMax(xs) = SeqMin(xs)

LinregressSlope(xs, ys) == Rat(CrossSum(xs, ys), CrossSum(xs, xs))

LinregressRSquared(xs, ys) ==
    IF CrossSum(xs, xs) = 0 \/ CrossSum(ys, ys) = 0 THEN RZero
    ELSE RMul(Rat(CrossSum(xs, ys), CrossSum(xs, xs)),
              Rat(CrossSum(xs, ys), CrossSum(ys, ys)))

\* the regression over every sale, whatever the valid periods
TrendWindowAllSales(rows, valid, dov) == rows

\* the sales of the regression: the 0-12 month window if it is a valid period
TrendWindow(rows, valid, dov) ==
    IF \E i \in 1..Len(valid) : valid[i].name = "0-12 months"
    THEN SelectSeq(rows, LAMBDA r :
             r.Sale_Date >= CutoffDate(dov, TrendWindowMonths))
    ELSE rows

\* Sale_Date - Sale_Date.min() of the window
DaysNumeric(trend_df) ==
    [i \in 1..Len(trend_df) |->
        trend_df[i].Sale_Date - SeqMin(SaleDatesOf(trend_df))]

\* the labels with the R-squared test made before the tests of the change
MarketTrendStabilityFirst(daily_price_change, r_squared) ==
    IF RLt(r_squared, Rat(3, 10)) THEN "UNSTABLE"
    ELSE IF RGt(daily_price_change, Rat(1, 2)) THEN "INCREASING"
    ELSE IF RLt(daily_price_change, Rat(-1, 2)) THEN "DECREASING"
    ELSE "STABLE"

MarketTrend(daily_price_change, r_squared) ==
    IF RGt(daily_price_change, Rat(1, 2)) THEN "INCREASING"
    ELSE IF RLt(daily_price_change, Rat(-1, 2)) THEN "DECREASING"
    ELSE IF RLt(r_squared, Rat(3, 10)) THEN "UNSTABLE"
    ELSE "STABLE"

\* trend results that regress a window of a single sale
TrendResultsFromOnePoint(trend_df) ==
    LET xs == DaysNumeric(trend_df)
        ys == Column(trend_df, "Sale_Price")
        slope_price == LinregressSlope(xs, ys)
        r_squared == LinregressRSquared(xs, ys)
    IN  IF Len(trend_df) >= 1
        THEN [slope_price |-> slope_price,
              daily_price_change |-> slope_price,
              monthly_price_change_pct |->
                  RMul(slope_price,
                       Rat(AvgMonthDays100 * Len(trend_df), SeqSum(ys))),
              market_trend |-> MarketTrend(slope_price, r_squared),
              r_squared |-> r_squared]
        ELSE [slope_price |-> RZero,
              daily_price_change |-> RZero,
              monthly_price_change_pct |-> RZero,
              market_trend |-> "INSUFFICIENT DATA",
              r_squared |-> RZero]

TrendResultsOf(trend_df) ==
    LET xs == DaysNumeric(trend_df)
        ys == Column(trend_df, "Sale_Price")
        slope_price == LinregressSlope(xs, ys)
        r_squared == LinregressRSquared(xs, ys)
    IN  IF Len(trend_df) >= 2
        THEN [slope_price |-> slope_price,
              daily_price_change |-> slope_price,
              monthly_price_change_pct |->
                  RMul(slope_price,
                       Rat(AvgMonthDays100 * Len(trend_df), SeqSum(ys))),
              market_trend |-> MarketTrend(slope_price, r_squared),
              r_squared |-> r_squared]
        ELSE [slope_price |-> RZero,
              daily_price_change |-> RZero,
              monthly_price_change_pct |-> RZero,
              market_trend |-> "INSUFFICIENT DATA",
              r_squared |-> RZero]

\* STEP 4: trend analysis; linregress raises when every sale of the window
\* has the same date, and the script then ends with exit code 1
MA_Trend ==
    /\ pc = "ma_trend"
    /\ LET trend_df == TrendWindow(df, valid_periods, DATE_OF_VALUE)
       IN  /\ regressions' = regressions +
                 (IF Len(trend_df) < 2 THEN 0
                  ELSE IF LinregressRaises(DaysNumeric(trend_df)) THEN 1 ELSE 2)
           /\ IF Len(trend_df) >= 2 /\ LinregressRaises(DaysNumeric(trend_df))
              THEN /\ market_rc' = 1
                   /\ pc' = "ma_exit"
                   /\ UNCHANGED trend_results
              ELSE /\ trend_results' = TrendResultsOf(trend_df)
                   /\ pc' = "ma_save"
                   /\ UNCHANGED market_rc
    /\ UNCHANGED <<inputVars, DATE_OF_VALUE, df, actual_coverage_days, idx,
                   valid_periods, omitted_periods, statistics, stdout, files,
                   maFiles, comp_sales, marginal_value_per_sf, aaFiles,
                   adjustment_rc, result>>

FullValidationInfo ==
    [date_of_value |-> DATE_OF_VALUE,
     earliest_sale |-> SeqMin(SaleDatesOf(df)),
     latest_sale |-> SeqMax(SaleDatesOf(df)),
     actual_coverage_months |-> Rat(actual_coverage_days * 100, AvgMonthDays100),
     valid_periods |-> valid_periods,
     omitted_periods |-> omitted_periods,
     trend_results |-> trend_results,
     subject_property |-> [living_area |-> form.living_area],
     thresholds |-> [time_adjustment_days |-> form.time_threshold_days,
                     sf_adjustment_pct |-> form.sf_threshold_pct]]

\* save the processed sales, the statistics and the validation record
MA_Save ==
    /\ pc = "ma_save"
    /\ sales_data_processed' = df
    /\ statistics_summary' = statistics
    /\ validation_info' = FullValidationInfo
    /\ files' = files \cup {"sales_data_processed.csv",
                            "statistics_summary.csv", "validation_info.json"}
    /\ market_rc' = 0
    /\ pc' = "ma_exit"
    /\ UNCHANGED <<inputVars, maVars, aaVars, aaFiles, adjustment_rc, result>>

-----------------------------------------------------------------------------
(* Adjustment_Analysis_.py *)

\* comparables taken from the 0-12 month window only
CompSalesOfWindow(rows, dov) ==
    SelectSeq(rows, LAMBDA r : r.Sale_Date >= CutoffDate(dov, TrendWindowMonths))

\* STEP 1: comp_sales = df.copy(), every processed sale
CompSales(rows, dov) == rows

\* load the processed sales and the validation record, extract the
\* configuration: a missing file or a missing key ends the script, exit code 1
AA_Load ==
    /\ pc = "aa_load"
    /\ IF /\ {"sales_data_processed.csv", "validation_info.json"} \subseteq files
          /\ {"subject_property", "date_of_value", "thresholds",
              "trend_results"} \subseteq DOMAIN validation_info
       THEN /\ comp_sales' = CompSales(sales_data_processed,
                                        validation_info.date_of_value)
            /\ pc' = "aa_time"
            /\ UNCHANGED adjustment_rc
       ELSE /\ adjustment_rc' = 1
            /\ pc' = "aa_exit"
            /\ UNCHANGED comp_sales
    /\ UNCHANGED <<inputVars, maVars, files, maFiles, marginal_value_per_sf,
                   regressions, aaFiles, market_rc, result>>

\* the threshold test with >= where > is meant
TimeAdjustmentAppliesAtThreshold(days_diff, threshold) ==
    Abs(days_diff) >= threshold

\* abs(days_diff) > TIME_THRESHOLD_DAYS
TimeAdjustmentApplies(days_diff, threshold) == Abs(days_diff) > threshold

\* a time adjustment whose amount is taken from the monthly percentage
TimeAdjustmentFromMonthlyPct(row, dov, threshold, trend) ==
    LET days_diff == dov - row.Sale_Date
        applies == TimeAdjustmentApplies(days_diff, threshold)
        adj_pct == RMul(RDiv(trend.monthly_price_change_pct,
                             Rat(AvgMonthDays100, 100)),
                        RInt(days_diff))
    IN  row @@
        [Days_Difference |-> days_diff,
         Time_Adj_Amount |-> IF applies THEN adj_pct ELSE RZero,
         Time_Adj_Pct |-> IF applies THEN adj_pct ELSE RZero]

TimeAdjustment(row, dov, threshold, trend) ==
    LET days_diff == dov - row.Sale_Date
        applies == TimeAdjustmentApplies(days_diff, threshold)
    IN  row @@
        [Days_Difference |-> days_diff,
         Time_Adj_Amount |->
             IF applies
             THEN RMul(trend.daily_price_change, RInt(days_diff))
             ELSE RZero,
         Time_Adj_Pct |->
             IF applies
             THEN RMul(RDiv(trend.monthly_price_change_pct,
                            Rat(AvgMonthDays100, 100)),
                       RInt(days_diff))
             ELSE RZero]

\* STEP 2: time adjustments
AA_TimeAdjustments ==
    /\ pc = "aa_time"
    /\ comp_sales' =
           [i \in 1..Len(comp_sales) |->
               TimeAdjustment(comp_sales[i], validation_info.date_of_value,
                              validation_info.thresholds.time_adjustment_days,
                              validation_info.trend_results)]
    /\ pc' = "aa_size"
    /\ UNCHANGED <<inputVars, maVars, files, maFiles, marginal_value_per_sf,
                   regressions, aaFiles, market_rc, adjustment_rc, result>>

\* sf_diff_pct > SF_THRESHOLD_PCT, sf_diff_pct the absolute percentage
SizeAdjustmentApplies(sf_diff_pct, threshold) ==
    RGt(RAbs(sf_diff_pct), RInt(threshold))

\* adj_amount = -sf_diff * marginal_value_per_sf (column SF_Adj_Amount; the
\* SF_ columns are named Size_ here, SF_ being reserved in TLA+)
SizeAdjustmentAmount(sf_diff, marginal) == RMul(RInt(-sf_diff), marginal)

SizeAdjustment(row, subject_area, threshold, marginal) ==
    LET missing == row.Living_Area = MissingArea
        sf_diff == IF missing THEN NaN ELSE row.Living_Area - subject_area
        sf_diff_pct == IF missing THEN NaN
                       ELSE RMul(Rat(sf_diff, subject_area), RInt(100))
        applies == SizeAdjustmentApplies(sf_diff_pct, threshold)
    IN  row @@
        [Size_Difference |-> sf_diff,
         Size_Difference_Pct |-> sf_diff_pct,
         Size_Adj_Amount |->
             IF applies THEN SizeAdjustmentAmount(sf_diff, marginal)
             ELSE RZero,
         Size_Adj_Pct |->
             IF applies
             THEN RMul(RNeg(Rat(sf_diff, subject_area)), RInt(100))
             ELSE RZero]

\* linregress(Living_Area, Sale_Price): with a blank living area the
\* extremes of x are NaN, nothing is raised and the slope is NaN
MarginalValueRaises(areas) ==
    (\A i \in 1..Len(areas) : areas[i] # MissingArea) /\ LinregressRaises(areas)

MarginalValue(areas, prices) ==
    IF \E i \in 1..Len(areas) : areas[i] = MissingArea THEN NaN
    ELSE LinregressSlope(areas, prices)

\* STEP 3: living area adjustments; linregress raises when every comparable
\* has the same living area, and the script then ends with exit code 1
AA_LivingAreaAdjustments ==
    /\ pc = "aa_size"
    /\ regressions' = regressions + 1
    /\ LET areas == Column(comp_sales, "Living_Area")
           prices == Column(comp_sales, "Sale_Price")
           slope_sf == MarginalValue(areas, prices)
       IN  IF MarginalValueRaises(areas)
           THEN /\ adjustment_rc' = 1
                /\ pc' = "aa_exit"
                /\ UNCHANGED <<comp_sales, marginal_value_per_sf>>
           ELSE /\ marginal_value_per_sf' = slope_sf
                /\ comp_sales' =
                       [i \in 1..Len(comp_sales) |->
                           SizeAdjustment(comp_sales[i],
                               validation_info.subject_property.living_area,
                               validation_info.thresholds.sf_adjustment_pct,
                               slope_sf)]
                /\ pc' = "aa_net"
                /\ UNCHANGED adjustment_rc
    /\ UNCHANGED <<inputVars, maVars, files, maFiles, aaFiles, market_rc,
                   result>>

\* an adjusted price that leaves the living-area adjustment out
NetAdjustmentTimeOnly(row) ==
    LET net_amount == RAdd(row.Time_Adj_Amount, row.Size_Adj_Amount)
        adjusted_price == RAdd(RInt(row.Sale_Price), row.Time_Adj_Amount)
    IN  row @@
        [Net_Adj_Amount |-> net_amount,
         Net_Adj_Pct |-> RAdd(row.Time_Adj_Pct, row.Size_Adj_Pct),
         Adjusted_Sale_Price |-> adjusted_price,
         Adjusted_Price_Per_SF |->
             RDiv(adjusted_price, AreaValue(row.Living_Area))]

NetAdjustment(row) ==
    LET net_amount == RAdd(row.Time_Adj_Amount, row.Size_Adj_Amount)
        adjusted_price == RAdd(RInt(row.Sale_Price), net_amount)
    IN  row @@
        [Net_Adj_Amount |-> net_amount,
         Net_Adj_Pct |-> RAdd(row.Time_Adj_Pct, row.Size_Adj_Pct),
         Adjusted_Sale_Price |-> adjusted_price,
         Adjusted_Price_Per_SF |->
             RDiv(adjusted_price, AreaValue(row.Living_Area))]

\* STEP 4: net adjustments and adjusted values
AA_NetAdjustments ==
    /\ pc = "aa_net"
    /\ comp_sales' = [i \in 1..Len(comp_sales) |-> NetAdjustment(comp_sales[i])]
    /\ pc' = "aa_save"
    /\ UNCHANGED <<inputVars, maVars, files, maFiles, marginal_value_per_sf,
                   regressions, aaFiles, market_rc, adjustment_rc, result>>

\* counts whose time_only is every sale with a time adjustment
AdjustmentCountsTimeTotal(rows) ==
    LET timeAdjusted == {i \in 1..Len(rows) : RNonZero(rows[i].Time_Adj_Amount)}
        sizeAdjusted == {i \in 1..Len(rows) : RNonZero(rows[i].Size_Adj_Amount)}
    IN  [time_only |-> Cardinality(timeAdjusted),
         sf_only |-> Cardinality(sizeAdjusted \ timeAdjusted),
         both |-> Cardinality(timeAdjusted \cap sizeAdjusted),
         none |-> Cardinality({i \in 1..Len(rows) :
             rows[i].Time_Adj_Amount = RZero /\ rows[i].Size_Adj_Amount = RZero})]

AdjustmentCounts(rows) ==
    LET timeAdjusted == {i \in 1..Len(rows) : RNonZero(rows[i].Time_Adj_Amount)}
        sizeAdjusted == {i \in 1..Len(rows) : RNonZero(rows[i].Size_Adj_Amount)}
        time_adj_count == Cardinality(timeAdjusted)
        sf_adj_count == Cardinality(sizeAdjusted)
        both_adj_count == Cardinality(timeAdjusted \cap sizeAdjusted)
        no_adj_count == Cardinality({i \in 1..Len(rows) :
            rows[i].Time_Adj_Amount = RZero /\ rows[i].Size_Adj_Amount = RZero})
    IN  [time_only |-> time_adj_count - both_adj_count,
         sf_only |-> sf_adj_count - both_adj_count,
         both |-> both_adj_count,
         none |-> no_adj_count]

\* STEPS 5 and 6 and the save of adjusted_sales.csv, adjustment_summary.json
AA_Save ==
    /\ pc = "aa_save"
    /\ adjusted_sales' = comp_sales
    /\ adjustment_summary' =
           [subject_living_area |-> validation_info.subject_property.living_area,
            time_threshold_days |-> validation_info.thresholds.time_adjustment_days,
            sf_threshold_pct |-> validation_info.thresholds.sf_adjustment_pct,
            marginal_value_per_sf |-> marginal_value_per_sf,
            daily_price_change |-> validation_info.trend_results.daily_price_change,
            adjustment_counts |-> AdjustmentCounts(comp_sales)]
    /\ files' = files \cup {"adjusted_sales.csv", "adjustment_summary.json"}
    /\ adjustment_rc' = 0
    /\ pc' = "aa_exit"
    /\ UNCHANGED <<inputVars, maVars, maFiles, aaVars, market_rc, result>>

-----------------------------------------------------------------------------
(* Run_Integrated_Analysis.py run_analysis_pipeline *)

\* an orchestrator that starts the adjustment analysis whatever the exit code
MarketAnalysisReturnsIgnoringExitCode ==
    /\ pc = "ma_exit"
    /\ pc' = "aa_load"
    /\ UNCHANGED <<inputVars, maVars, files, maFiles, aaVars, aaFiles,
                   market_rc, adjustment_rc, result>>

\* the market analysis subprocess returned
MarketAnalysisReturns ==
    /\ pc = "ma_exit"
    /\ IF market_rc = 0
       THEN pc' = "aa_load" /\ UNCHANGED result
       ELSE pc' = "failed" /\ result' = "False"
    /\ UNCHANGED <<inputVars, maVars, files, maFiles, aaVars, aaFiles,
                   market_rc, adjustment_rc>>

\* the adjustment analysis subprocess returned
AdjustmentAnalysisReturns ==
    /\ pc = "aa_exit"
    /\ IF adjustment_rc = 0
       THEN pc' = "charts" /\ UNCHANGED result
       ELSE pc' = "failed" /\ result' = "False"
    /\ UNCHANGED <<inputVars, maVars, files, maFiles, aaVars, aaFiles,
                   market_rc, adjustment_rc>>

\* the chart, Excel and PDF scripts: their exit codes are only printed
GenerateCharts ==
    /\ pc = "charts"
    /\ pc' = "excel"
    /\ UNCHANGED <<inputVars, maVars, files, maFiles, aaVars, aaFiles,
                   market_rc, adjustment_rc, result>>

CreateExcel ==
    /\ pc = "excel"
    /\ pc' = "pdf"
    /\ UNCHANGED <<inputVars, maVars, files, maFiles, aaVars, aaFiles,
                   market_rc, adjustment_rc, result>>

CreatePdf ==
    /\ pc = "pdf"
    /\ pc' = "done"
    /\ result' = "True"
    /\ UNCHANGED <<inputVars, maVars, files, maFiles, aaVars, aaFiles,
                   market_rc, adjustment_rc>>

-----------------------------------------------------------------------------
(* Specifications *)

Next ==
    \/ RunMarketAnalysis
    \/ MA_Load
    \/ MA_Filter
    \/ MA_Coverage
    \/ MA_Period
    \/ MA_Statistics
    \/ MA_Trend
    \/ MA_Save
    \/ MarketAnalysisReturns
    \/ AA_Load
    \/ AA_TimeAdjustments
    \/ AA_LivingAreaAdjustments
    \/ AA_NetAdjustments
    \/ AA_Save
    \/ AdjustmentAnalysisReturns
    \/ GenerateCharts
    \/ CreateExcel
    \/ CreatePdf

\* runs over tables that vary price and living area
Spec == Init /\ [][Next]_vars

\* runs over tables that vary the sale dates
SpecPeriods == InitPeriods /\ [][Next]_vars

\* runs over tables that vary the price within two sale dates
SpecTrend == InitTrend /\ [][Next]_vars

\* runs over tables whose sales reach back eleven or twelve months
SpecYear == InitYear /\ [][Next]_vars

\* runs over tables with a zero or blank living area
SpecAreas == InitAreas /\ [][Next]_vars

\* runs over forms, CSV headers and days of the run
SpecInputs == InitInputs /\ [][Next]_vars

\* runs over headers in which two columns may resolve to one name
SpecHeaders == InitHeaders /\ [][Next]_vars

-----------------------------------------------------------------------------
(* Properties *)

\* the form and the CSV header pass the checks made before the filter
ConfigurationAccepted ==
    required_final \subseteq csvColumns /\ form.living_area # 0

\* no input sale has a sale date on or before the date of value
NoSaleOnOrBefore == FilterSales(csv, form.effective_date) = <<>>

Ascending(rows) ==
    \A i, j \in 1..Len(rows) : i < j => rows[i].Sale_Date <= rows[j].Sale_Date

\* C1: the processed sales table written by the market analysis holds only
\* rows with a sale date on or before the date of value, in ascending
\* sale-date order.
C1_ProcessedOnOrBeforeAndSorted ==
    "sales_data_processed.csv" \in files =>
        /\ \A i \in 1..Len(sales_data_processed) :
               /\ sales_data_processed[i].Sale_Date # NaT
               /\ sales_data_processed[i].Sale_Date <= DATE_OF_VALUE
        /\ Ascending(sales_data_processed)

\* C1 witness: a table of three rows, one sold after the date of value and
\* the two kept ones out of date order, has been processed and written.
C1_Witness ==
    /\ "sales_data_processed.csv" \in files
    /\ Len(sales_data_processed) = 2
    /\ Len(csv) = 3
    /\ \E i \in 1..Len(csv) : csv[i].Sale_Date > form.effective_date
    /\ \E i, j \in 1..Len(csv) :
           /\ i < j
           /\ csv[j].Sale_Date # NaT
           /\ csv[j].Sale_Date < csv[i].Sale_Date
           /\ csv[i].Sale_Date <= form.effective_date

\* C2: in the adjustment table the time adjustment amount and percentage are
\* zero whenever |days_diff| <= time_threshold_days, and the size adjustment
\* amount and percentage are zero whenever |sf_diff_pct| <= size_threshold_pct,
\* equality included.
C2_NoAdjustmentWithinThreshold ==
    "adjusted_sales.csv" \in files =>
        \A i \in 1..Len(adjusted_sales) :
            LET row == adjusted_sales[i] IN
            /\ Abs(row.Days_Difference) <= form.time_threshold_days =>
                   row.Time_Adj_Amount = RZero /\ row.Time_Adj_Pct = RZero
            /\ RLe(RAbs(row.Size_Difference_Pct), RInt(form.sf_threshold_pct)) =>
                   row.Size_Adj_Amount = RZero /\ row.Size_Adj_Pct = RZero

\* C2 witness: one comparable is exactly at the time threshold and exactly at
\* the size threshold while the trend and the marginal value are not zero,
\* and another comparable is adjusted for size.
C2_Witness ==
    /\ "adjusted_sales.csv" \in files
    /\ validation_info.trend_results.daily_price_change # RZero
    /\ IsFinite(marginal_value_per_sf)
    /\ marginal_value_per_sf # RZero
    /\ \E i \in 1..Len(adjusted_sales) :
           /\ adjusted_sales[i].Days_Difference = form.time_threshold_days
           /\ adjusted_sales[i].Size_Difference_Pct = RInt(form.sf_threshold_pct)
           /\ adjusted_sales[i].Time_Adj_Amount = RZero
           /\ adjusted_sales[i].Size_Adj_Amount = RZero

\* C3: for every comparable of the adjustment table the net adjustment amount
\* is the time adjustment amount plus the size adjustment amount, and the
\* adjusted price is the sale price plus the time adjustment amount plus the
\* size adjustment amount, nothing else.
C3_AdjustedPriceIsSum ==
    "adjusted_sales.csv" \in files =>
        \A i \in 1..Len(adjusted_sales) :
            LET row == adjusted_sales[i] IN
            /\ row.Net_Adj_Amount = RAdd(row.Time_Adj_Amount, row.Size_Adj_Amount)
            /\ row.Adjusted_Sale_Price =
                   RAdd(RAdd(RInt(row.Sale_Price), row.Time_Adj_Amount),
                        row.Size_Adj_Amount)

\* C3 witness: a comparable with a time adjustment and a size adjustment,
\* both finite and not zero, whose adjusted price differs from its sale price.
C3_Witness ==
    /\ "adjusted_sales.csv" \in files
    /\ \E i \in 1..Len(adjusted_sales) :
           LET row == adjusted_sales[i] IN
           /\ IsFinite(row.Time_Adj_Amount) /\ row.Time_Adj_Amount # RZero
           /\ IsFinite(row.Size_Adj_Amount) /\ row.Size_Adj_Amount # RZero
           /\ row.Time_Adj_Amount # row.Size_Adj_Amount
           /\ row.Adjusted_Sale_Price # RInt(row.Sale_Price)

\* C4: when no input sale is on or before the date of value, the market
\* analysis ends without a crash and writes a validation record that carries
\* the message "No sales on or before date of value" and reports zero valid
\* periods.
C4_EmptyInputRecord ==
    (ConfigurationAccepted /\ NoSaleOnOrBefore /\ pc = "ma_exit") =>
        /\ market_rc = 0
        /\ "validation_info.json" \in files
        /\ "message" \in DOMAIN validation_info
        /\ validation_info.message = NoSalesMessage
        /\ "valid_periods" \in DOMAIN validation_info
        /\ validation_info.valid_periods = <<>>

\* C5: when the filtered sales set is empty the orchestrated run makes no
\* regression and does not end in a failure outcome.
C5_EmptyInputNotAFailure ==
    (ConfigurationAccepted /\ NoSaleOnOrBefore) =>
        /\ regressions = 0
        /\ pc # "failed"
        /\ result # "False"

\* the coverage check recomputed from the sales the filter kept
ExceedsCoverage(months, rows, dov) ==
    months * AvgMonthDays100 >
        (dov - SeqMin(SaleDatesOf(rows))) * 100 + AvgMonthDays100

OmittedFor(name, kind) ==
    \E i \in 1..Len(omitted_periods) :
        /\ omitted_periods[i].name = name
        /\ omitted_periods[i].reason.kind = kind

InValid(name) == \E i \in 1..Len(valid_periods) : valid_periods[i].name = name

\* C6: every candidate evaluated so far whose month count exceeds the actual
\* coverage in months plus the one-month buffer is in the omitted list with a
\* reason citing data coverage and is not in the valid list; with six months
\* of coverage every candidate above 7 months is omitted for coverage.
C6_BeyondCoverageOmitted ==
    \A k \in 1..(idx - 1) :
        LET p == time_periods[k] IN
        /\ ExceedsCoverage(p.months, df, DATE_OF_VALUE) =>
               /\ OmittedFor(p.name, "extends beyond data coverage")
               /\ ~InValid(p.name)
        /\ (/\ ((DATE_OF_VALUE - SeqMin(SaleDatesOf(df))) * 100)
                   \div AvgMonthDays100 = 6
            /\ p.months > 7) =>
               /\ OmittedFor(p.name, "extends beyond data coverage")
               /\ ~InValid(p.name)

\* C6 witness: the whole ladder has been evaluated over sales that cover 6.0
\* months; six candidates are omitted for coverage and the 3- and 6-month
\* candidates are valid.
C6_Witness ==
    /\ pc = "ma_stats"
    /\ CoverageTenths(actual_coverage_days) = 60
    /\ Cardinality({k \in 1..Len(time_periods) :
           OmittedFor(time_periods[k].name, "extends beyond data coverage")}) = 6
    /\ InValid("0-3 months")
    /\ InValid("4-6 months")

\* C7 as stated: no two periods of the valid list have the same sale count.
C7_NoTwoValidShareCount ==
    \A i, j \in 1..Len(valid_periods) :
        i < j => valid_periods[i].sales_count # valid_periods[j].sales_count

\* C7 amended: no two consecutive periods of the valid list have the same sale
\* count: a candidate is excluded when its sale count equals that of the last
\* window included before it.
C7_NoTwoConsecutiveValidShareCount ==
    \A i \in 1..(Len(valid_periods) - 1) :
        valid_periods[i].sales_count # valid_periods[i + 1].sales_count

\* C7 witness: a candidate was omitted as a duplicate of the last included
\* window, and two valid periods that are not consecutive share a sale count.
C7_Witness ==
    /\ pc = "ma_stats"
    /\ \E i \in 1..Len(omitted_periods) :
           omitted_periods[i].reason.kind = "identical sales count to"
    /\ \E i, j \in 1..Len(valid_periods) :
           /\ i + 1 < j
           /\ valid_periods[i].sales_count = valid_periods[j].sales_count

\* one step of the period loop, from one candidate to the next
PeriodLoopStep ==
    /\ pc = "ma_periods"
    /\ pc' = "ma_periods"
    /\ idx \in 1..Len(time_periods)
    /\ idx' \in 1..Len(time_periods)

\* C8 as stated: the candidates are evaluated in ascending month-count order,
\* each one's month count at least that of the one evaluated before it.
C8_AscendingLadder ==
    [][PeriodLoopStep =>
          time_periods[idx'].months >= time_periods[idx].months]_vars

\* C8 amended: the candidates are evaluated in the listed order of the ladder,
\* 3, 6, 9, 12, 6, 12, 18, 24, 36: each one's month count is at least that of
\* the one evaluated before it, except "0-6 months" (6), which is evaluated
\* right after "9-12 months" (12).
C8_LadderOrder ==
    [][PeriodLoopStep =>
          /\ idx' = idx + 1
          /\ \/ time_periods[idx'].months >= time_periods[idx].months
             \/ /\ time_periods[idx].name = "9-12 months"
                /\ time_periods[idx'].name = "0-6 months"]_vars

\* C8 witness: the loop is about to evaluate "0-6 months", the four
\* candidates before it evaluated.
C8_Witness ==
    /\ pc = "ma_periods"
    /\ time_periods[idx].name = "0-6 months"
    /\ Len(valid_periods) + Len(omitted_periods) = 4

\* C9: the reason of every omitted period of the validation record can be
\* reproduced from the processed sales table: it cites coverage and the month
\* count exceeds the coverage months + 1, or it names a valid period whose
\* recorded sale count equals the omitted period's, both counts being those
\* of the processed table.
C9_OmittedReasonReproducible ==
    ("validation_info.json" \in files
        /\ "omitted_periods" \in DOMAIN validation_info) =>
        \A i \in 1..Len(validation_info.omitted_periods) :
            LET o == validation_info.omitted_periods[i]
                dov == validation_info.date_of_value
                recount(months) ==
                    SalesCount(sales_data_processed, CutoffDate(dov, months))
            IN  \/ /\ o.reason.kind = "extends beyond data coverage"
                   /\ ExceedsCoverage(o.months, sales_data_processed, dov)
                \/ /\ o.reason.kind = "identical sales count to"
                   /\ o.sales_count = recount(o.months)
                   /\ \E j \in 1..Len(validation_info.valid_periods) :
                          LET v == validation_info.valid_periods[j] IN
                          /\ v.name = o.reason.ref
                          /\ v.sales_count = o.sales_count
                          /\ v.sales_count = recount(v.months)

\* C9 witness: a validation record with a period omitted for coverage and a
\* period omitted as a duplicate has been written.
C9_Witness ==
    /\ "validation_info.json" \in files
    /\ "omitted_periods" \in DOMAIN validation_info
    /\ \E i, j \in 1..Len(validation_info.omitted_periods) :
           /\ validation_info.omitted_periods[i].reason.kind =
                  "extends beyond data coverage"
           /\ validation_info.omitted_periods[j].reason.kind =
                  "identical sales count to"
           /\ validation_info.omitted_periods[j].sales_count > 0

\* C10: a comparable larger than the subject whose size difference exceeds the
\* size threshold has a negative size adjustment amount, and one smaller than
\* the subject a positive amount.
C10_SizeAdjustmentSign ==
    "adjusted_sales.csv" \in files =>
        \A i \in 1..Len(adjusted_sales) :
            LET row == adjusted_sales[i] IN
            RGt(RAbs(row.Size_Difference_Pct), RInt(form.sf_threshold_pct)) =>
                /\ row.Size_Difference > 0 => RLt(row.Size_Adj_Amount, RZero)
                /\ row.Size_Difference < 0 => RGt(row.Size_Adj_Amount, RZero)

-----------------------------------------------------------------------------
(* Trend label and time adjustment amount *)

\* the number of sales in the trend window of the run
TrendPoints == Len(TrendWindow(df, valid_periods, DATE_OF_VALUE))

TrendLabels == {"INCREASING", "DECREASING", "UNSTABLE", "STABLE"}

\* C11: with at least two trend points the label is the first match of:
\* daily change above 0.50 INCREASING, below -0.50 DECREASING, R-squared
\* below 0.30 UNSTABLE, otherwise STABLE; a daily change beyond 0.50 either
\* way is never UNSTABLE, and the label is one of the four.
C11_TrendLabelFirstMatch ==
    (trend_results # NoFile /\ TrendPoints >= 2) =>
        LET change == trend_results.daily_price_change
            r2 == trend_results.r_squared
            label == trend_results.market_trend
            up == RGt(change, Rat(1, 2))
            down == RLt(change, Rat(-1, 2))
            weak == RLt(r2, Rat(3, 10))
        IN  /\ label \in TrendLabels
            /\ up => label = "INCREASING"
            /\ (~up /\ down) => label = "DECREASING"
            /\ (~up /\ ~down /\ weak) => label = "UNSTABLE"
            /\ (~up /\ ~down /\ ~weak) => label = "STABLE"
            /\ RGt(RAbs(change), Rat(1, 2)) => label # "UNSTABLE"

\* three sales rising by more than 0.50 a day with R-squared below 0.30
C11_Witness ==
    /\ trend_results # NoFile
    /\ TrendPoints >= 2
    /\ RGt(trend_results.daily_price_change, Rat(1, 2))
    /\ RLt(trend_results.r_squared, Rat(3, 10))
    /\ trend_results.market_trend = "INCREASING"

InsufficientData ==
    [slope_price |-> RZero,
     daily_price_change |-> RZero,
     monthly_price_change_pct |-> RZero,
     market_trend |-> "INSUFFICIENT DATA",
     r_squared |-> RZero]

\* C12: a trend window of fewer than two sales runs no regression; the trend
\* result is slope, daily change, monthly change and R-squared 0 with the
\* label INSUFFICIENT DATA, it is the result saved, and the market analysis
\* ends with exit code 0.
C12_InsufficientDataTrend ==
    (pc \notin {"start", "ma_load", "ma_filter", "ma_coverage", "ma_periods",
                "ma_stats", "ma_trend"} /\ df # <<>> /\ TrendPoints < 2) =>
        /\ trend_results = InsufficientData
        /\ pc = "ma_save" => regressions = 0
        /\ pc # "ma_save" =>
               /\ market_rc = 0
               /\ "validation_info.json" \in files
               /\ validation_info.trend_results = InsufficientData

\* two sales on or before the date of value, one of them in the 0-12 month
\* window, and the saved trend result of the ended run
C12_Witness ==
    /\ pc = "ma_exit"
    /\ market_rc = 0
    /\ Len(df) = 2
    /\ TrendPoints = 1
    /\ "validation_info.json" \in files
    /\ validation_info.trend_results = InsufficientData

\* C13: a comparable whose |days_diff| exceeds the time threshold has the
\* time adjustment amount daily_change * days_diff, daily_change the daily
\* price change of the saved trend result.
C13_TimeAdjustmentAmount ==
    "adjusted_sales.csv" \in files =>
        \A i \in 1..Len(adjusted_sales) :
            LET row == adjusted_sales[i]
                days_diff == validation_info.date_of_value - row.Sale_Date
            IN  Abs(days_diff) >
                    validation_info.thresholds.time_adjustment_days =>
                    row.Time_Adj_Amount =
                        RMul(validation_info.trend_results.daily_price_change,
                             RInt(days_diff))

\* threshold 30: a sale on the date of value with a zero amount and a sale
\* DateStep days earlier with the non-zero amount daily_change * DateStep
C13_Witness ==
    /\ "adjusted_sales.csv" \in files
    /\ validation_info.thresholds.time_adjustment_days = DefaultTimeThresholdDays
    /\ RNonZero(validation_info.trend_results.daily_price_change)
    /\ \E i, j \in 1..Len(adjusted_sales) :
           /\ adjusted_sales[i].Days_Difference = 0
           /\ adjusted_sales[i].Time_Adj_Amount = RZero
           /\ adjusted_sales[j].Days_Difference = DateStep
           /\ adjusted_sales[j].Time_Adj_Amount =
                  RMul(validation_info.trend_results.daily_price_change,
                       RInt(DateStep))

-----------------------------------------------------------------------------
(* Outputs of the market analysis and the inputs they depend on *)

\* the processed sales table that a run on day clock writes for the input
ProcessedAt(clock) ==
    LET dov == DateOfValue(form, clock)
    IN  DerivedAndSorted(FilterSales(csv, dov), dov)

\* C14: the outputs depend on the input table and the configuration only,
\* not on the wall clock: a run of the same input on any other day writes
\* the same processed sales table and the same date of value.
C14_OutputsDependOnInputsOnly ==
    "sales_data_processed.csv" \in files =>
        \A clock \in Clocks :
            /\ sales_data_processed = ProcessedAt(clock)
            /\ validation_info.date_of_value = DateOfValue(form, clock)

\* C15: the period statistics table has exactly one row for each period of
\* the valid list, in order, with its name, month count and sale count.
C15_OneRowPerValidPeriod ==
    "statistics_summary.csv" \in files =>
        LET valid == validation_info.valid_periods
        IN  /\ Len(statistics_summary) = Len(valid)
            /\ \A i \in 1..Len(valid) :
                   /\ statistics_summary[i].Period = valid[i].name
                   /\ statistics_summary[i].Months = valid[i].months
                   /\ statistics_summary[i].N_Sales = valid[i].sales_count

\* the input without the rows whose sale date does not parse
ParsedRows == SelectSeq(csv, LAMBDA r : r.Sale_Date # NaT)

\* what the load and filter sections print and keep for a table
LoadedAndFiltered(rows) ==
    LET kept == FilterSales(rows, DATE_OF_VALUE)
    IN  [stdout |-> LoadMessages(form, Renamed(header)) \o FilterMessages(kept),
         df |-> IF kept = <<>> THEN kept
                ELSE DerivedAndSorted(kept, DATE_OF_VALUE)]

\* C16: when the loader has dropped a row for an unparseable sale date, the
\* drop is recorded in the reported output: what the run has printed and
\* kept after the filter differs from what it prints and keeps for the same
\* table without the unparseable rows.
C16_DroppedRowsReported ==
    (/\ \/ pc = "ma_coverage"
        \/ pc = "ma_exit" /\ market_rc = 0 /\ df = <<>>
     /\ ParsedRows # csv) =>
        [stdout |-> stdout, df |-> df] # LoadedAndFiltered(ParsedRows)

CoreColumns == {"Sale_Price", "Sale_Date", "Living_Area"}

\* the filter section of the market analysis has been reached
FilterReached ==
    \E k \in 1..Len(stdout) : stdout[k].line = "Sales on or before"

\* C17: when the sale price, the sale date or the living area column did
\* not resolve, the market analysis ends with an error before the filter
\* and writes none of its output files.
C17_MissingCoreColumnStops ==
    (pc \notin {"start", "ma_load"} /\ ~(CoreColumns \subseteq csvColumns)) =>
        /\ pc \in {"ma_exit", "failed"}
        /\ market_rc = 1
        /\ ~FilterReached
        /\ df = <<>>
        /\ files = {}
        /\ stdout[Len(stdout)].line = "ERROR: Missing required final columns"

\* a table of two sales and a valid form, the sale date column unresolved:
\* the pipeline has failed and no file is written
C17_Witness ==
    /\ pc = "failed"
    /\ csvColumns = required_final \ {"Sale_Date"}
    /\ form.living_area # 0
    /\ Len(csv) = 2
    /\ market_rc = 1
    /\ files = {}

\* C18: a table whose sale price, sale date and living area columns resolve
\* is accepted when optional columns are absent: the run reaches the filter
\* and prints no missing-column error.
C18_OptionalColumnsNotRequired ==
    (/\ pc \notin {"start", "ma_load"}
     /\ CoreColumns \subseteq csvColumns
     /\ form.living_area # 0) =>
        /\ FilterReached
        /\ \A k \in 1..Len(stdout) :
               stdout[k].line # "ERROR: Missing required final columns"

-----------------------------------------------------------------------------
(* Adjustment table and processed sales table *)

NoLivingArea(row) == row.Living_Area \in {0, MissingArea}

\* C20: a comparable with a zero or missing living area does not abort the
\* adjustment batch: the adjustment stage ends with exit code 0, every
\* processed sale keeps its record, every other comparable has defined
\* adjustment values, and of the offending record only the size adjustment
\* and the adjusted price per area are undefined.
C20_NoLivingAreaDoesNotAbort ==
    (/\ adjustment_rc # -1
     /\ \E i \in 1..Len(sales_data_processed) :
            NoLivingArea(sales_data_processed[i])) =>
        /\ adjustment_rc = 0
        /\ Len(adjusted_sales) = Len(sales_data_processed)
        /\ \A i \in 1..Len(adjusted_sales) :
               LET row == adjusted_sales[i]
               IN  /\ IsFinite(row.Time_Adj_Amount)
                   /\ IsFinite(row.Time_Adj_Pct)
                   /\ IF NoLivingArea(row)
                      THEN /\ ~IsFinite(row.Size_Adj_Amount)
                           /\ ~IsFinite(row.Adjusted_Price_Per_SF)
                      ELSE /\ IsFinite(row.Size_Adj_Amount)
                           /\ IsFinite(row.Size_Adj_Pct)
                           /\ IsFinite(row.Net_Adj_Amount)
                           /\ IsFinite(row.Adjusted_Sale_Price)
                           /\ IsFinite(row.Adjusted_Price_Per_SF)

-----------------------------------------------------------------------------
(* Column mapping *)

\* C21: the mapping resolves each canonical field to at most one input
\* column, the first match: no two input columns are assigned the same
\* canonical name, so no name occurs twice among the columns after the
\* rename, and a canonical field that no column matches is assigned to none.
C21_MappingFirstMatch ==
    pc \notin {"start", "ma_load"} =>
        \A name \in required_final :
            LET assigned == {i \in 1..Len(header) :
                                rename_map(header)[i] = name}
            IN  /\ Cardinality(assigned) <= 1
                /\ (\A i \in 1..Len(header) : Canonical(header[i]) # name)
                       => assigned = {}

\* the candidate the period loop evaluates in this step
Candidate == time_periods[idx]

\* the sale count of the candidate, counted from the processed table
CandidateCount ==
    SalesCount(df, CutoffDate(DATE_OF_VALUE, Candidate.months))

\* one iteration of the period loop over a candidate that passes check 1
CoveredCandidateStep ==
    /\ pc = "ma_periods"
    /\ idx \in 1..Len(time_periods)
    /\ idx' = idx + 1
    /\ ~ExceedsCoverage(Candidate.months, df, DATE_OF_VALUE)

\* C22: a candidate that passes the coverage check is omitted if and only if
\* the valid list is non-empty and the candidate's sale count equals the sale
\* count of the last period of the valid list; otherwise it is appended to the
\* valid list, whatever the counts of the omitted periods and of the valid
\* periods before the last one.
C22_DuplicateCheckAgainstLastValid ==
    [][CoveredCandidateStep =>
          LET lastEqual ==
                  /\ valid_periods # <<>>
                  /\ CandidateCount =
                         valid_periods[Len(valid_periods)].sales_count
          IN  /\ lastEqual <=>
                     /\ Len(omitted_periods') = Len(omitted_periods) + 1
                     /\ omitted_periods'[Len(omitted_periods')].name = Candidate.name
                     /\ valid_periods' = valid_periods
              /\ ~lastEqual <=>
                     /\ Len(valid_periods') = Len(valid_periods) + 1
                     /\ valid_periods'[Len(valid_periods')].name = Candidate.name
                     /\ valid_periods'[Len(valid_periods')].sales_count = CandidateCount
                     /\ omitted_periods' = omitted_periods]_vars

\* C22 witness: "0-6 months" was accepted although its sale count equals that
\* of a valid period that was not the last one when it was evaluated and that
\* of "4-6 months", omitted before it as a duplicate.
C22_Witness ==
    /\ pc = "ma_stats"
    /\ \E j \in 1..Len(valid_periods) :
           /\ valid_periods[j].name = "0-6 months"
           /\ \E i \in 1..(j - 2) :
                  valid_periods[i].sales_count = valid_periods[j].sales_count
           /\ \E k \in 1..Len(omitted_periods) :
                  /\ omitted_periods[k].name = "4-6 months"
                  /\ omitted_periods[k].reason.kind = "identical sales count to"
                  /\ omitted_periods[k].sales_count = valid_periods[j].sales_count

\* the sales the trend regression is to use: those sold on or after the date
\* of value minus 12 x 30.44 days when "0-12 months" is a valid period, every
\* processed sale otherwise (dates are whole days)
TrendSales ==
    IF InValid("0-12 months")
    THEN SelectSeq(df, LAMBDA r :
             (DATE_OF_VALUE - r.Sale_Date) * 100
                 <= TrendWindowMonths * AvgMonthDays100)
    ELSE df

\* C23: the trend results are those of the regression over exactly the sales
\* sold on or after (date of value - 12 x 30.44 days) when a period named
\* "0-12 months" is in the valid list, and over the entire processed sales
\* set otherwise.
C23_TrendUsesTwelveMonthWindow ==
    pc = "ma_save" => trend_results = TrendResultsOf(TrendSales)

\* C23 witness: "0-12 months" is valid, the regression ran over two or more
\* sales, and a processed sale older than the window was left out of it.
C23_Witness ==
    /\ pc = "ma_save"
    /\ InValid("0-12 months")
    /\ Len(TrendSales) >= 2
    /\ Len(TrendSales) < Len(df)
    /\ trend_results.market_trend # "INSUFFICIENT DATA"

\* C24: when the trend window holds exactly two sales sold on different
\* dates, the slope of the results is (price2 - price1) / (days2 - days1) and
\* the R-squared is 1.
C24_TwoPointFitIsExact ==
    (/\ pc = "ma_save"
     /\ Len(TrendSales) = 2
     /\ TrendSales[1].Sale_Date # TrendSales[2].Sale_Date) =>
        /\ trend_results.slope_price =
               Rat(TrendSales[2].Sale_Price - TrendSales[1].Sale_Price,
                   TrendSales[2].Sale_Date - TrendSales[1].Sale_Date)
        /\ trend_results.r_squared = RInt(1)

\* C25: a candidate that passes the coverage and duplicate checks with fewer
\* than 3 sales is appended to the valid list, and its record carries a status
\* that marks it as insufficient data, not the plain valid status.
C25_FewSalesFlaggedInRecord ==
    [][(/\ CoveredCandidateStep
        /\ ~(/\ valid_periods # <<>>
             /\ CandidateCount = valid_periods[Len(valid_periods)].sales_count)
        /\ CandidateCount < 3) =>
          /\ Len(valid_periods') = Len(valid_periods) + 1
          /\ valid_periods'[Len(valid_periods')].name = Candidate.name
          /\ valid_periods'[Len(valid_periods')].status # "valid"]_vars

\* the names of the nine candidates in the order of the ladder
LadderNames ==
    <<"0-3 months", "4-6 months", "7-9 months", "9-12 months", "0-6 months",
      "0-12 months", "0-18 months", "0-24 months", "0-36 months">>

LadderPosition(name) ==
    CHOOSE k \in 1..Len(LadderNames) : LadderNames[k] = name

\* the periods of a list keep the order of the ladder
InLadderOrder(periods) ==
    \A i, j \in 1..Len(periods) :
        i < j => LadderPosition(periods[i].name) < LadderPosition(periods[j].name)

\* the number of periods of a list that have the name
Occurrences(periods, name) ==
    Cardinality({i \in 1..Len(periods) : periods[i].name = name})

\* C26: once the period loop has run over a non-empty sales set, the valid and
\* the omitted list together hold 9 periods, every candidate of the ladder is
\* in exactly one of the two lists, and each list keeps the ladder order.
C26_LadderPartitioned ==
    (idx = Len(LadderNames) + 1 /\ df # <<>>) =>
        /\ Len(valid_periods) + Len(omitted_periods) = 9
        /\ \A k \in 1..Len(LadderNames) :
               Occurrences(valid_periods, LadderNames[k])
                   + Occurrences(omitted_periods, LadderNames[k]) = 1
        /\ InLadderOrder(valid_periods)
        /\ InLadderOrder(omitted_periods)

\* C26 witness: the loop has ended with three or more periods in each list,
\* periods omitted for either reason.
C26_Witness ==
    /\ pc = "ma_stats"
    /\ Len(valid_periods) >= 3
    /\ Len(omitted_periods) >= 3
    /\ \E i, j \in 1..Len(omitted_periods) :
           /\ omitted_periods[i].reason.kind = "extends beyond data coverage"
           /\ omitted_periods[j].reason.kind = "identical sales count to"

\* the sale count of the window of the month count, from the processed table
WindowCount(months) == SalesCount(df, CutoffDate(DATE_OF_VALUE, months))

\* C27: once the period loop has run over a non-empty sales set, "0-12 months"
\* is in the valid list if and only if 12 <= coverage months + 1 and the sale
\* counts of the 6-month and the 12-month window differ; and when it is in the
\* valid list, "0-6 months" is the valid period right before it.
C27_TwelveMonthsValidIff ==
    (idx = Len(LadderNames) + 1 /\ df # <<>>) =>
        /\ InValid("0-12 months") <=>
               /\ ~ExceedsCoverage(12, df, DATE_OF_VALUE)
               /\ WindowCount(6) # WindowCount(12)
        /\ \A j \in 1..Len(valid_periods) :
               valid_periods[j].name = "0-12 months" =>
                   /\ j > 1
                   /\ valid_periods[j - 1].name = "0-6 months"

\* C27 witness: the loop has ended with "0-12 months" valid right after
\* "0-6 months", and "9-12 months", which has the same sale count, valid too.
C27_Witness ==
    /\ pc = "ma_stats"
    /\ \E j \in 2..Len(valid_periods) :
           /\ valid_periods[j].name = "0-12 months"
           /\ valid_periods[j - 1].name = "0-6 months"
           /\ valid_periods[j].sales_count # valid_periods[j - 1].sales_count
    /\ InValid("9-12 months")

\* C28: the stages start in the order market analysis, adjustment analysis,
\* charts, Excel, PDF. The adjustment analysis starts only when the market
\* analysis has returned exit code 0, the charts only when the adjustment
\* analysis has returned exit code 0, Excel only after the charts and the PDF
\* only after Excel; a non-zero exit code of the market or the adjustment
\* analysis makes the pipeline return False, and no stage starts after that.
C28_StagesInOrder ==
    [][/\ pc = "start" => pc' = "ma_load"
       /\ pc' = "aa_load" => (pc = "ma_exit" /\ market_rc = 0)
       /\ pc' = "charts" => (pc = "aa_exit" /\ adjustment_rc = 0)
       /\ pc' = "excel" => pc = "charts"
       /\ pc' = "pdf" => pc = "excel"
       /\ (pc = "ma_exit" /\ market_rc # 0) =>
              (pc' = "failed" /\ result' = "False")
       /\ (pc = "aa_exit" /\ adjustment_rc # 0) =>
              (pc' = "failed" /\ result' = "False")
       /\ pc # "failed"]_vars

\* C28 witness: the market analysis returned 0, the adjustment analysis
\* started and returned a non-zero exit code, and the pipeline returned False
\* without a chart, Excel or PDF stage.
C28_Witness ==
    /\ pc = "failed"
    /\ result = "False"
    /\ market_rc = 0
    /\ adjustment_rc # 0
    /\ "sales_data_processed.csv" \in files

\* the comparables of the saved table with or without a time adjustment and
\* with or without a living-area adjustment
AdjustedClass(time, size) ==
    {i \in 1..Len(adjusted_sales) :
        /\ (adjusted_sales[i].Time_Adj_Amount # RZero) = time
        /\ (adjusted_sales[i].Size_Adj_Amount # RZero) = size}

\* C29: the four adjustment counts of the summary are non-negative and sum to
\* the number of comparables, each comparable counted in exactly one class:
\* time adjustment only, living-area adjustment only, both, or none.
C29_AdjustmentCountsPartition ==
    "adjustment_summary.json" \in files =>
        LET counts == adjustment_summary.adjustment_counts IN
        /\ counts.time_only >= 0
        /\ counts.sf_only >= 0
        /\ counts.both >= 0
        /\ counts.none >= 0
        /\ counts.time_only + counts.sf_only + counts.both + counts.none
               = Len(adjusted_sales)
        /\ counts.time_only = Cardinality(AdjustedClass(TRUE, FALSE))
        /\ counts.sf_only = Cardinality(AdjustedClass(FALSE, TRUE))
        /\ counts.both = Cardinality(AdjustedClass(TRUE, TRUE))
        /\ counts.none = Cardinality(AdjustedClass(FALSE, FALSE))

\* C29 witness: a summary has been saved for two comparables, one with both
\* adjustments and one in another class.
C29_Witness ==
    /\ "adjustment_summary.json" \in files
    /\ Len(adjusted_sales) = 2
    /\ adjustment_summary.adjustment_counts.both = 1

\* the month count and the sale count recorded for every candidate evaluated
\* so far, valid or omitted
RecordedCounts ==
    {<<valid_periods[i].months, valid_periods[i].sales_count>> :
        i \in 1..Len(valid_periods)}
    \cup {<<omitted_periods[i].months, omitted_periods[i].sales_count>> :
        i \in 1..Len(omitted_periods)}

\* C30: of any two candidates evaluated, the one with the larger month count
\* has a recorded sale count greater than or equal to the other's, and two
\* candidates with the same month count have the same recorded sale count.
C30_CountsMonotoneInMonths ==
    \A a, b \in RecordedCounts :
        /\ a[1] <= b[1] => a[2] <= b[2]
        /\ a[1] = b[1] => a[2] = b[2]

\* C30 witness: all nine candidates are recorded, the sale count grows from
\* the 3-month to the 6-month and from the 6-month to the 12-month window.
C30_Witness ==
    /\ pc = "ma_stats"
    /\ Len(valid_periods) + Len(omitted_periods) = Len(LadderNames)
    /\ \E a, b, c \in RecordedCounts :
           /\ a[1] = 3 /\ b[1] = 6 /\ c[1] = 12
           /\ a[2] < b[2]
           /\ b[2] < c[2]
====
